---- MODULE Spec2Model ----
(***************************************************************************)
(* QulacsDevice (pennylane_qulacs/qulacs_device.py): the translation of a  *)
(* sequence of PennyLane operations into mutations of a Qulacs state       *)
(* vector and circuit.                                                     *)
(*                                                                         *)
(* Amplitudes are exact complex numbers <<re, im>> in units of 1/5, so     *)
(* that (3/5, 4i/5) is a normalized non-trivial vector; angles are         *)
(* integers k standing for k*pi, so that every rotation matrix has         *)
(* entries in {0, 1, -1, i, -i}.  The engine (qulacs) indexes the state    *)
(* vector with qubit 0 as the least significant bit.                       *)
(***************************************************************************)
EXTENDS Integers, Sequences, FiniteSets, TLC

VARIABLES
    num_wires,  \* self.num_wires, fixed by __init__
    _state,     \* self._state: the engine's amplitude vector, or None
    _circuit,   \* self._circuit: the gates added with add_gate, in order
    applied,    \* history: the gates passed to update_quantum_state since reset
    pc,         \* "idle", or "apply" while the for loop of apply is running
    i,          \* the enumerate index of the next operation of the running apply
    last        \* history: the last step taken (operation, its index, its error)

vars == <<num_wires, _state, _circuit, applied, pc, i, last>>

\* ---------------------------------------------------------------- bounds
MaxWires == 2
MaxLog == 1

\* ---------------------------------------------------------------- numbers
\* None, as the value of self._state: no vector at all
None == <<>>

Pow2(n) == 2 ^ n

\* int(np.log2(n)) for n >= 1
RECURSIVE Log2(_)
Log2(n) == IF n <= 1 THEN 0 ELSE 1 + Log2(n \div 2)

Bit(x, b) == (x \div Pow2(b)) % 2

Reverse(s) == [k \in 1..Len(s) |-> s[Len(s) + 1 - k]]

\* complex numbers <<re, im>>
CAdd(a, b) == <<a[1] + b[1], a[2] + b[2]>>
CMul(a, b) == <<a[1] * b[1] - a[2] * b[2], a[1] * b[2] + a[2] * b[1]>>
AbsSq(a) == a[1] * a[1] + a[2] * a[2]

c0 == <<0, 0>>
c1 == <<1, 0>>
ci == <<0, 1>>

\* amplitude 1 in the model's units of 1/5
One == <<5, 0>>

\* cos(k*pi/2) and sin(k*pi/2)
CosHalf(k) == CASE k % 4 = 0 -> 1 [] k % 4 = 2 -> -1 [] OTHER -> 0
SinHalf(k) == CASE k % 4 = 1 -> 1 [] k % 4 = 3 -> -1 [] OTHER -> 0

\* ---------------------------------------------------------------- matrix library
X == <<<<c0, c1>>, <<c1, c0>>>>

SWAP == << <<c1, c0, c0, c0>>, <<c0, c0, c1, c0>>,
           <<c0, c1, c0, c0>>, <<c0, c0, c0, c1>> >>

\* block_diag(SWAP, I, I)
CSWAP == [r \in 1..8 |-> [c \in 1..8 |->
            IF r <= 4 /\ c <= 4 THEN SWAP[r][c]
            ELSE IF r = c THEN c1 ELSE c0]]

\* np.diag of ones with the upper left 2x2 block replaced by X
toffoli == [r \in 1..8 |-> [c \in 1..8 |->
            IF r <= 2 /\ c <= 2 THEN X[r][c]
            ELSE IF r = c THEN c1 ELSE c0]]

\* cos(theta/2) I + i sin(-theta/2) Y,  Y = [[0, -i], [i, 0]]
ry(theta) == << <<<<CosHalf(theta), 0>>, <<-SinHalf(theta), 0>>>>,
                <<<<SinHalf(theta), 0>>, <<CosHalf(theta), 0>>>> >>

\* cos(theta/2) I + i sin(-theta/2) Z
rz(theta) == << <<<<CosHalf(theta), -SinHalf(theta)>>, c0>>,
                <<c0, <<CosHalf(theta), SinHalf(theta)>>>> >>

\* diag(1, 1, exp(-i theta/2), exp(i theta/2))
crz(theta) == << <<c1, c0, c0, c0>>, <<c0, c1, c0, c0>>,
                 <<c0, c0, <<CosHalf(theta), -SinHalf(theta)>>, c0>>,
                 <<c0, c0, c0, <<CosHalf(theta), SinHalf(theta)>>>> >>

\* ---------------------------------------------------------------- wire reordering
BitRev(x, n) == LET RECURSIVE R(_, _)
                    R(b, acc) == IF b = n THEN acc
                                 ELSE R(b + 1, 2 * acc + Bit(x, b))
                IN R(0, 0)

\* reshape([2] * N) succeeds only for a length that is a power of two
ReshapeFails(v) == Pow2(Log2(Len(v))) # Len(v)

\* state_vector.reshape([2] * N).T.flatten()
_reverse_state(v) ==
    [k \in 1..Len(v) |-> v[BitRev(k - 1, Log2(Len(v))) + 1]]

\* ---------------------------------------------------------------- engine (qulacs)
BasisVector(n, k) == [x \in 1..Pow2(n) |-> IF x = k + 1 THEN One ELSE c0]

\* QuantumState(n) and set_zero_state()
set_zero_state(n) == BasisVector(n, 0)

\* set_computational_basis(k)
set_computational_basis(n, k) == BasisVector(n, k)

\* load(v): the vector becomes v
load(v) == v

\* gate objects: a name, the target list as passed, the parameters as passed
Gate(name, wires, par) == [name |-> name, wires |-> wires, par |-> par]

\* the matrix of a gate over GateTargets, first target least significant
GateMatrix(g) ==
    CASE g.name = "X" -> X
      [] g.name = "RY" -> ry(-g.par[1])
      [] g.name = "RZ" -> rz(-g.par[1])
      [] g.name = "CNOT" -> << <<c1, c0, c0, c0>>, <<c0, c1, c0, c0>>,
                               <<c0, c0, c0, c1>>, <<c0, c0, c1, c0>> >>
      [] g.name = "DenseMatrix" -> g.par[1]

\* CNOT(control, target): the target is the low bit of the matrix index
GateTargets(g) ==
    IF g.name = "CNOT" THEN <<g.wires[2], g.wires[1]>> ELSE g.wires

SubIndex(x, T) == LET RECURSIVE S(_)
                      S(m) == IF m > Len(T) THEN 0
                              ELSE Bit(x, T[m]) * Pow2(m - 1) + S(m + 1)
                  IN S(1)

PutIndex(x, T, c) == LET RECURSIVE S(_)
                         S(m) == IF m > Len(T) THEN 0
                                 ELSE (Bit(c, m - 1) - Bit(x, T[m])) * Pow2(T[m])
                                      + S(m + 1)
                     IN x + S(1)

ApplyMatrix(vec, T, M) ==
    [k \in 1..Len(vec) |->
        LET x == k - 1
            RECURSIVE Sum(_)
            Sum(c) == IF c = Pow2(Len(T)) THEN c0
                      ELSE CAdd(CMul(M[SubIndex(x, T) + 1][c + 1],
                                     vec[PutIndex(x, T, c) + 1]),
                                Sum(c + 1))
        IN Sum(0)]

\* gate.update_quantum_state(self._state)
update_quantum_state(g, vec) == ApplyMatrix(vec, GateTargets(g), GateMatrix(g))

\* self._circuit.add_gate(gate)
add_gate(circuit, g) == Append(circuit, g)

\* ---------------------------------------------------------------- device
\* the device as the loop body sees it
Device(s, c, a) == [state |-> s, circuit |-> c, applied |-> a]

\* the outcome of one loop iteration: the device, and the exception raised
Ok(d) == [err |-> "none", state |-> d.state, circuit |-> d.circuit,
          applied |-> d.applied]
Raise(e, d) == [err |-> e, state |-> d.state, circuit |-> d.circuit,
                applied |-> d.applied]

AddGate(d, g) == [d EXCEPT !.circuit = add_gate(@, g)]
UpdateState(d, g) == [d EXCEPT !.state = update_quantum_state(g, @),
                               !.applied = Append(@, g)]

Op(name, wires, parameters) ==
    [name |-> name, wires |-> wires, parameters |-> parameters]

\* np.negative
Negative(par) == [k \in 1..Len(par) |-> -par[k]]

\* the keys of _operation_map with the engine constructor, matrix or None
\* each maps to (CRZ maps to the generator crz, applied in ApplyMatrixBacked)
_operation_map ==
    [n \in {"QubitStateVector", "BasisState", "QubitUnitary", "Rot"} |-> None]
    @@ ("Toffoli" :> toffoli) @@ ("CSWAP" :> CSWAP) @@ ("CRZ" :> "crz")
    @@ ("SWAP" :> "SWAP") @@ ("CNOT" :> "CNOT") @@ ("CZ" :> "CZ")
    @@ ("S" :> "S") @@ ("S.inv" :> "Sdag") @@ ("T" :> "T")
    @@ ("T.inv" :> "Tdag") @@ ("RX" :> "RX") @@ ("RY" :> "RY")
    @@ ("RZ" :> "RZ") @@ ("PauliX" :> "X") @@ ("PauliY" :> "Y")
    @@ ("PauliZ" :> "Z") @@ ("Hadamard" :> "H")

operations == DOMAIN _operation_map

\* ---------------------------------------------------------------- apply
\* mutant: only BasisState is tested for its position
SequencingViolation_OnlyBasisState(idx, op) ==
    idx > 0 /\ op.name \in {"BasisState"}

\* mutant: the test asks whether the device has already applied gates
SequencingViolation_UsesHistory(idx, op) ==
    (idx > 0 \/ Len(_circuit) > 0) /\ op.name \in {"BasisState", "QubitStateVector"}

\* i > 0 and op.name in {"BasisState", "QubitStateVector"}
SequencingViolation(idx, op) ==
    idx > 0 /\ op.name \in {"BasisState", "QubitStateVector"}

RECURSIVE SumSq(_)
SumSq(v) == IF v = <<>> THEN 0 ELSE AbsSq(Head(v)) + SumSq(Tail(v))

\* np.isclose(np.linalg.norm(input_state, 2), 1.0, atol=tolerance): on the
\* model's grid of amplitudes a norm is 1 or further from 1 than the tolerance
IsNormalized(v) == SumSq(v) = AbsSq(One)

ApplyQubitStateVector(d, wires, op) ==
    LET par == op.parameters IN
    IF ReshapeFails(par[1]) THEN Raise("ValueError", d)
    ELSE LET input_state == _reverse_state(par[1]) IN
         IF Len(input_state) # Pow2(Len(wires)) THEN Raise("ValueError", d)
         ELSE IF ~IsNormalized([k \in 1..Len(input_state) |-> input_state[k]])
              THEN Raise("ValueError", d)
         ELSE Ok([d EXCEPT !.state = load(par[1])])

\* basis_state = (basis_state << 1) | bit, over bits in order
PackBits(bits) == LET RECURSIVE P(_, _)
                      P(k, acc) == IF k > Len(bits) THEN acc
                                   ELSE P(k + 1, 2 * acc + bits[k])
                  IN P(1, 0)

\* mutant: the bits are packed without being reversed
ApplyBasisState_NoReversal(d, n, wires, op) ==
    LET bits == op.parameters[1]
        n_basis_state == Len(bits)
    IN  IF ~({bits[k] : k \in 1..Len(bits)} \subseteq {0, 1})
        THEN Raise("ValueError", d)
        ELSE IF n_basis_state # Len(wires) THEN Raise("ValueError", d)
        ELSE Ok([d EXCEPT !.state = set_computational_basis(n, PackBits(bits))])

ApplyBasisState(d, n, wires, op) ==
    LET bits == Reverse(op.parameters[1])
        n_basis_state == Len(bits)
    IN  IF ~({bits[k] : k \in 1..Len(bits)} \subseteq {0, 1})
        THEN Raise("ValueError", d)
        ELSE IF n_basis_state # Len(wires) THEN Raise("ValueError", d)
        ELSE Ok([d EXCEPT !.state = set_computational_basis(n, PackBits(bits))])

\* mutant: the gate is added to the circuit before the shape is checked
ApplyQubitUnitary_LogsBeforeCheck(d, wires, op) ==
    LET par == op.parameters
        unitary_gate == Gate("DenseMatrix", wires, <<par[1]>>)
    IN  IF Len(par[1]) # Pow2(Len(wires))
        THEN Raise("ValueError", AddGate(d, unitary_gate))
        ELSE Ok(UpdateState(AddGate(d, unitary_gate), unitary_gate))

ApplyQubitUnitary(d, wires, op) ==
    LET par == op.parameters IN
    IF Len(par[1]) # Pow2(Len(wires)) THEN Raise("ValueError", d)
    ELSE LET unitary_gate == Gate("DenseMatrix", wires, <<par[1]>>)
         IN Ok(UpdateState(AddGate(d, unitary_gate), unitary_gate))

\* mutant: the angles are not negated
ApplyRot_NotNegated(d, wires, op) ==
    LET par == op.parameters
        g1 == Gate("RZ", <<wires[1]>>, <<par[1]>>)
        g2 == Gate("RY", <<wires[1]>>, <<par[2]>>)
        g3 == Gate("RZ", <<wires[1]>>, <<par[3]>>)
        d1 == UpdateState(AddGate(d, g1), g1)
        d2 == UpdateState(AddGate(d1, g2), g2)
        d3 == UpdateState(AddGate(d2, g3), g3)
    IN Ok(d3)

ApplyRot(d, wires, op) ==
    LET par == Negative(op.parameters)
        g1 == Gate("RZ", <<wires[1]>>, <<par[1]>>)
        g2 == Gate("RY", <<wires[1]>>, <<par[2]>>)
        g3 == Gate("RZ", <<wires[1]>>, <<par[3]>>)
        d1 == UpdateState(AddGate(d, g1), g1)
        d2 == UpdateState(AddGate(d1, g2), g2)
        d3 == UpdateState(AddGate(d2, g3), g3)
    IN Ok(d3)

\* mutant: the dense gate is applied to the state and not added to the circuit
ApplyMatrixBacked_NotLogged(d, wires, op) ==
    LET par == op.parameters
        mapped_operation == _operation_map[op.name]
        gate_matrix == IF op.name = "CRZ" THEN crz(par[1]) ELSE mapped_operation
        dense_gate == Gate("DenseMatrix", wires, <<gate_matrix>>)
    IN Ok(UpdateState(d, dense_gate))

ApplyMatrixBacked(d, wires, op) ==
    LET par == op.parameters
        mapped_operation == _operation_map[op.name]
        gate_matrix == IF op.name = "CRZ" THEN crz(par[1]) ELSE mapped_operation
        dense_gate == Gate("DenseMatrix", wires, <<gate_matrix>>)
    IN Ok(UpdateState(AddGate(d, dense_gate), dense_gate))

\* mutant: a name missing from the map is skipped
ApplyNative_SkipsUnknown(d, wires, op) ==
    LET par == Negative(op.parameters) IN
    IF op.name \notin DOMAIN _operation_map THEN Ok(d)
    ELSE LET g == Gate(_operation_map[op.name], wires, par)
         IN Ok(UpdateState(AddGate(d, g), g))

ApplyNative(d, wires, op) ==
    LET par == Negative(op.parameters) IN
    IF op.name \notin DOMAIN _operation_map THEN Raise("KeyError", d)
    ELSE LET g == Gate(_operation_map[op.name], wires, par)
         IN Ok(UpdateState(AddGate(d, g), g))

\* the body of the for loop of apply, for the operation op at index idx
ApplyOp(d, n, idx, op) ==
    LET wires == Reverse(op.wires) IN
    IF SequencingViolation(idx, op) THEN Raise("DeviceError", d)
    ELSE CASE op.name = "QubitStateVector" -> ApplyQubitStateVector(d, wires, op)
           [] op.name = "BasisState" -> ApplyBasisState(d, n, wires, op)
           [] op.name = "QubitUnitary" -> ApplyQubitUnitary(d, wires, op)
           [] op.name = "Rot" -> ApplyRot(d, wires, op)
           [] op.name \in {"CRZ", "Toffoli", "CSWAP"} -> ApplyMatrixBacked(d, wires, op)
           [] OTHER -> ApplyNative(d, wires, op)

\* ---------------------------------------------------------------- queries
get_vector(s) == s

\* the state property
state == _reverse_state(get_vector(_state))

\* analytic_probability(wires=None): None without a state, else the
\* squared magnitude (in units of 1/25) of every amplitude of state
analytic_probability ==
    IF _state = None THEN None
    ELSE [k \in 1..Len(state) |-> AbsSq(state[k])]

\* ---------------------------------------------------------------- inputs
AllWires(n) == [k \in 1..n |-> k - 1]

\* 3/5 at index 0 and 4i/5 at index 1: normalized, changed by bit reversal
\* when n >= 2
VecA(n) == [k \in 1..Pow2(n) |->
              IF k = 1 THEN <<3, 0>> ELSE IF k = 2 THEN <<0, 4>> ELSE c0]

\* 4/5 at index 0 and 3i/5 at the last index: normalized, fixed by bit reversal
VecS(n) == [k \in 1..Pow2(n) |->
              IF k = 1 THEN <<4, 0>> ELSE IF k = Pow2(n) THEN <<0, 3>> ELSE c0]

\* squared norm 18/25
VecUnnormalized(n) == [k \in 1..Pow2(n) |-> IF k <= 2 THEN <<3, 0>> ELSE c0]

StateVectorOps(n) ==
    {Op("QubitStateVector", AllWires(n), <<v>>) :
        v \in {VecA(n), VecS(n), VecUnnormalized(n), VecA(n + 1),
               <<<<3, 0>>, <<0, 4>>, c0>>}}

BasisStateOps(n) ==
    {Op("BasisState", AllWires(n), <<b>>) : b \in [1..n -> {0, 1}]}
    \cup {Op("BasisState", AllWires(n), <<[k \in 1..n |-> IF k = 1 THEN 2 ELSE 0]>>),
          Op("BasisState", AllWires(n), <<[k \in 1..(n + 1) |-> 0]>>),
          Op("BasisState", <<n - 1>>, <<<<1>>>>)}

UnitaryOps(n) ==
    {Op("QubitUnitary", <<0>>, <<<<<<c0, c1>>, <<ci, c0>>>>>>),
     Op("QubitUnitary", <<0>>, <<SWAP>>)}

GateOps(n) ==
    {Op("PauliX", <<w>>, <<>>) : w \in {0, n - 1}}
    \cup {Op("RY", <<0>>, <<1>>), Op("Rot", <<n - 1>>, <<1, 1, 0>>)}
    \cup (IF n >= 2 THEN {Op("CNOT", <<0, n - 1>>, <<>>),
                          Op("CRZ", <<0, n - 1>>, <<1>>)} ELSE {})
    \cup (IF n >= 3 THEN {Op("Toffoli", <<0, 1, 2>>, <<>>),
                          Op("CSWAP", <<0, 1, 2>>, <<>>)} ELSE {})

UnsupportedOps(n) == {Op("PhaseShift", <<0>>, <<1>>)}

Operations(n) ==
    StateVectorOps(n) \cup BasisStateOps(n) \cup UnitaryOps(n) \cup GateOps(n)
    \cup UnsupportedOps(n)

NoOp == Op("", <<>>, <<>>)

Last(act, op, idx, err) == [act |-> act, op |-> op, idx |-> idx, err |-> err]

\* ---------------------------------------------------------------- actions
\* __init__(wires): a zero state and an empty circuit
Init ==
    /\ num_wires \in 1..MaxWires
    /\ _state = set_zero_state(num_wires)
    /\ _circuit = <<>>
    /\ applied = <<>>
    /\ pc = "idle"
    /\ i = 0
    /\ last = Last("init", NoOp, 0, "none")

\* apply(operations) is called: the loop starts at index 0
Begin ==
    /\ pc = "idle"
    /\ pc' = "apply"
    /\ i' = 0
    /\ last' = Last("begin", NoOp, 0, "none")
    /\ UNCHANGED <<num_wires, _state, _circuit, applied>>

\* one iteration of the loop, for the operation op at index i; an exception
\* leaves the loop and the call
Step(op) ==
    /\ pc = "apply"
    /\ LET out == ApplyOp(Device(_state, _circuit, applied), num_wires, i, op) IN
        /\ Len(_circuit) < MaxLog \/ out.circuit = _circuit
        /\ _state' = out.state
        /\ _circuit' = out.circuit
        /\ applied' = out.applied
        /\ last' = Last("op", op, i, out.err)
        /\ IF out.err = "none"
           THEN pc' = "apply" /\ i' = i + 1
           ELSE pc' = "idle" /\ i' = 0
    /\ UNCHANGED num_wires

\* the list is exhausted: apply returns
Return ==
    /\ pc = "apply"
    /\ pc' = "idle"
    /\ i' = 0
    /\ last' = [last EXCEPT !.act = "return"]
    /\ UNCHANGED <<num_wires, _state, _circuit, applied>>

\* mutant: the circuit is not replaced
reset_KeepsCircuit ==
    /\ pc = "idle"
    /\ _state' = set_zero_state(num_wires)
    /\ applied' = <<>>
    /\ last' = Last("reset", NoOp, 0, "none")
    /\ UNCHANGED <<num_wires, _circuit, pc, i>>

reset ==
    /\ pc = "idle"
    /\ _state' = set_zero_state(num_wires)
    /\ _circuit' = <<>>
    /\ applied' = <<>>
    /\ last' = Last("reset", NoOp, 0, "none")
    /\ UNCHANGED <<num_wires, pc, i>>

Next ==
    \/ Begin
    \/ \E op \in Operations(num_wires) : Step(op)
    \/ Return
    \/ reset

Spec == Init /\ [][Next]_vars

\* ---------------------------------------------------------------- properties
StateLoading == {"BasisState", "QubitStateVector"}

\* __init__ stores a QuantumState and nothing assigns None: the device
\* always holds a vector of length 2^num_wires
TypeOK ==
    /\ _state # None
    /\ Len(_state) = Pow2(num_wires)
    /\ pc \in {"idle", "apply"}
    /\ i \in 0..(MaxLog + 1)
    /\ analytic_probability # None

\* C1: a state-loading operation at an index above 0 of an apply call raises
\* the sequencing error (DeviceError), ends the call, and leaves the state
\* vector as it was.
C1_LoadNotFirstFails ==
    [][(last'.act = "op" /\ last'.idx > 0 /\ last'.op.name \in StateLoading)
         => (last'.err = "DeviceError" /\ pc' = "idle" /\ _state' = _state)]_vars

C1_Witness ==
    /\ last.act = "op" /\ last.idx > 0 /\ last.op.name \in StateLoading
    /\ last.err = "DeviceError"
    /\ Len(_circuit) > 0

\* C2: after apply([QubitStateVector(v)]) on all wires of a fresh device has
\* returned, the state property is v.
C2_RoundTripLoad ==
    (/\ pc = "idle" /\ last.act = "return" /\ last.idx = 0
     /\ last.op.name = "QubitStateVector" /\ last.err = "none"
     /\ _circuit = <<>>)
    => \A k \in 1..Pow2(num_wires) : state[k] = last.op.parameters[1][k]

\* the caller-convention index of a bit list, wire 0 most significant
BigEndianIndex(b) == LET RECURSIVE S(_)
                         S(j) == IF j > Len(b) THEN 0
                                 ELSE b[j] * Pow2(Len(b) - j) + S(j + 1)
                     IN S(1)

\* C3: after apply([BasisState(b)]) on all wires has returned, for b in
\* {0,1}^N, the state property is 1 at the index whose big-endian digits are
\* b and 0 elsewhere.
C3_BasisStateLoad ==
    (/\ pc = "idle" /\ last.act = "return" /\ last.idx = 0
     /\ last.op.name = "BasisState"
     /\ last.op.wires = AllWires(num_wires))
    => /\ Len(state) = Pow2(num_wires)
       /\ \A k \in 1..Pow2(num_wires) :
            state[k] = IF k - 1 = BigEndianIndex(last.op.parameters[1])
                       THEN One ELSE c0

C3_Witness ==
    /\ pc = "idle" /\ last.act = "return" /\ last.idx = 0
    /\ last.op.name = "BasisState"
    /\ last.op.wires = <<0, 1>>
    /\ last.op.parameters[1] = <<1, 0>>
    /\ state[3] = One

\* C4: an operation that raises changes neither the state vector nor the
\* circuit, and ends the call: what the operations before it did stays, and
\* no operation after it is processed.
C4_FailureKeepsPrefix ==
    [][(last'.act = "op" /\ last'.err # "none")
         => (/\ _state' = _state
             /\ _circuit' = _circuit
             /\ applied' = applied
             /\ pc' = "idle")]_vars

C4_Witness ==
    /\ last.act = "op" /\ last.err = "ValueError" /\ last.idx > 0
    /\ pc = "idle"
    /\ Len(_circuit) > 0

\* C5: reset leaves the zero state of the same number of wires and an empty
\* circuit, in one step: the device a constructor call would have produced.
C5_ResetRestoresFresh ==
    [][(last'.act = "reset")
         => (/\ num_wires' = num_wires
             /\ Len(_state') = Pow2(num_wires)
             /\ \A k \in 1..Pow2(num_wires) :
                    _state'[k] = IF k = 1 THEN One ELSE c0
             /\ _circuit' = <<>>
             /\ pc' = "idle" /\ i' = 0)]_vars

C5_Witness ==
    /\ last.act = "reset"
    /\ _circuit = <<>>
    /\ _state[1] = One

\* C6: an operation whose name is no key of the operation map raises
\* (KeyError), ends the call, and adds nothing to the circuit or the state.
C6_UnsupportedFails ==
    [][(last'.act = "op" /\ last'.op.name \notin operations)
         => (/\ last'.err = "KeyError"
             /\ pc' = "idle"
             /\ _state' = _state
             /\ _circuit' = _circuit
             /\ applied' = applied)]_vars

C6_Witness ==
    /\ last.act = "op" /\ last.op.name = "PhaseShift"
    /\ last.err = "KeyError" /\ pc = "idle"

\* C8: Rot(t0, t1, t2) on wire w appends RZ(w, -t0), RY(w, -t1), RZ(w, -t2)
\* to the circuit, in this order, and leaves the state vector those three
\* engine gates produce when applied one after another.
C8_RotIsThreeRotations ==
    [][(last'.act = "op" /\ last'.op.name = "Rot")
         => LET w == last'.op.wires[Len(last'.op.wires)]
                t == last'.op.parameters
                g1 == Gate("RZ", <<w>>, <<-t[1]>>)
                g2 == Gate("RY", <<w>>, <<-t[2]>>)
                g3 == Gate("RZ", <<w>>, <<-t[3]>>)
            IN /\ last'.err = "none"
               /\ _circuit' = _circuit \o <<g1, g2, g3>>
               /\ applied' = applied \o <<g1, g2, g3>>
               /\ _state' = update_quantum_state(g3,
                              update_quantum_state(g2,
                                update_quantum_state(g1, _state)))]_vars

C8_Witness ==
    /\ last.act = "op" /\ last.op.name = "Rot" /\ last.err = "none"
    /\ Len(_circuit) >= 3
    /\ _circuit[Len(_circuit) - 1].name = "RY"

IsPrefix(s, t) == Len(s) <= Len(t) /\ SubSeq(t, 1, Len(s)) = s

C10_PositionTestIgnoresHistory ==
    [][(last'.act = "op" /\ last'.idx = 0 /\ last'.op.name \in StateLoading)
         => LET fresh == ApplyOp(Device(set_zero_state(num_wires), <<>>, <<>>),
                                 num_wires, 0, last'.op)
            IN /\ last'.err = fresh.err
               /\ last'.err # "DeviceError"
               /\ last'.err = "none" =>
                    (_state' = fresh.state /\ _circuit' = _circuit)]_vars

C10_Witness ==
    /\ last.act = "op" /\ last.idx = 0 /\ last.op.name \in StateLoading
    /\ last.err = "none"
    /\ Len(_circuit) > 0
====
